---- MODULE Spec2Model ----
(***************************************************************************)
(* A model of the DomainFlow SDK (src/index.js): the client constructor,   *)
(* the request gateway DomainFlow._request with its two await points, the  *)
(* resource operations that delegate to it, domains.list's query building  *)
(* and webhooks.verifySignature.                                           *)
(***************************************************************************)
EXTENDS Integers, Sequences, FiniteSets, TLC

VARIABLES
    client,     \* the DomainFlow object, or Undefined before a constructor call returned
    ctorCall,   \* the latest constructor call: its arguments and how it ended
    pc,         \* per call: "idle", "fetch" (awaiting fetch), "json" (awaiting response.json()), "done"
    req,        \* per call: the (url, options) handed to fetch
    sent,       \* per call: how many times fetch was called for it
    res,        \* per call: what fetch settled with (a response or a thrown error)
    outcome,    \* per call: how the promise returned by the operation settled
    listCall,   \* domains.list: its params and the (method, path) it passes to _request
    sigCall     \* webhooks.verifySignature: its arguments and its return value

gatewayVars == <<client, ctorCall, pc, req, sent, res, outcome>>
vars == <<client, ctorCall, pc, req, sent, res, outcome, listCall, sigCall>>

---------------------------------------------------------------------------
(* Bounds of the model *)

\* number of API operations that may be in flight on the one client
MaxCalls == 2

\* longest filter value given to domains.list
MaxValueLen == 2

\* longest payload given to verifySignature
MaxPayloadLen == 2

Calls == 1..MaxCalls

---------------------------------------------------------------------------
(* JavaScript values, tagged by type *)

Undefined == [t |-> "undefined"]
Null == [t |-> "null"]
Str(s) == [t |-> "string", v |-> s]
Num(n) == [t |-> "number", v |-> n]
Obj(fields) == [t |-> "object", v |-> fields]

\* ToBoolean, as applied by !x, x || y and if (x)
Truthy(x) ==
    CASE x.t = "undefined" -> FALSE
      [] x.t = "null" -> FALSE
      [] x.t = "string" -> x.v # ""
      [] x.t = "number" -> x.v # 0
      [] OTHER -> TRUE

\* a || b
Or(a, b) == IF Truthy(a) THEN a ELSE b

\* new Error(message) and its subclasses thrown by the platform
Error(name, message) == [name |-> name, message |-> Str(message)]

\* class DomainFlowError extends Error
DomainFlowError(message, statusCode, response) ==
    [name |-> "DomainFlowError", message |-> message,
     statusCode |-> statusCode, response |-> response]

---------------------------------------------------------------------------
(* The constructor *)

DefaultBaseUrl == "https://api.domainflow.com"
DefaultTimeout == 30000

\* the apiKey arguments tried: absent, empty, and two keys
ApiKeys == {Undefined, Str(""), Str("key-A"), Str("key-B")}

\* the options arguments tried ({} is both fields undefined)
OptionsArgs ==
    [baseUrl : {Undefined, Str("http://localhost:3000")},
     timeout : {Undefined, Num(5000)}]

\* a guard that tests only for an absent key (if (apiKey === undefined) throw)
KeyMissingOnlyUndefined(apiKey) == apiKey = Undefined

\* the guard of the constructor: if (!apiKey) throw
KeyMissing(apiKey) == ~Truthy(apiKey)

\* the object the constructor builds once the guard passed
NewClient(apiKey, options) ==
    [t |-> "DomainFlow",
     apiKey |-> apiKey,
     baseUrl |-> Or(options.baseUrl, Str(DefaultBaseUrl)),
     timeout |-> Or(options.timeout, Num(DefaultTimeout)),
     domains |-> "DomainsResource",
     tenants |-> "TenantsResource",
     webhooks |-> "WebhooksResource",
     certificates |-> "CertificatesResource"]

\* new DomainFlow(apiKey, options)
Construct(apiKey, options) ==
    /\ client = Undefined
    /\ IF KeyMissing(apiKey)
         THEN /\ ctorCall' = [pc |-> "thrown", apiKey |-> apiKey, options |-> options,
                              error |-> Error("Error", "DomainFlow API key is required")]
              /\ UNCHANGED client
         ELSE /\ client' = NewClient(apiKey, options)
              /\ ctorCall' = [pc |-> "returned", apiKey |-> apiKey, options |-> options,
                              error |-> Undefined]
    /\ UNCHANGED <<pc, req, sent, res, outcome, listCall, sigCall>>

---------------------------------------------------------------------------
(* The request gateway *)

\* JSON.stringify(data): the text of an object, which omits undefined-valued properties
Stringify(data) ==
    [t |-> "json-text",
     of |-> [k \in {f \in DOMAIN data.v : data.v[f] # Undefined} |-> data.v[k]]]

\* the headers object of _request
RequestHeaders(c) ==
    [xApiKey |-> c.apiKey, contentType |-> Str("application/json")]

\* the url and the options _request hands to fetch
BuildRequest(c, method, path, data) ==
    [url |-> c.baseUrl.v \o path,
     options |->
        IF Truthy(data)
          THEN [method |-> method, headers |-> RequestHeaders(c), body |-> Stringify(data)]
          ELSE [method |-> method, headers |-> RequestHeaders(c)]]

\* the resource operations, each with sample arguments: (method, path, data) as
\* passed to _request (data defaults to null)
Operations ==
    { [name |-> "domains.add", method |-> "POST", path |-> "/api/domain/add",
       data |-> Obj([domain |-> Str("app.customer.com"),
                     upstream_url |-> Str("https://yourapp.com"),
                     tenant_id |-> Undefined])],
      [name |-> "domains.get", method |-> "GET", path |-> "/api/domain/" \o "dom_1",
       data |-> Null],
      [name |-> "tenants.delete", method |-> "DELETE", path |-> "/api/tenant/" \o "ten_1",
       data |-> Null] }

\* response bodies the remote may send: JSON texts (given by the value they decode
\* to) and a text that is not JSON
Bodies ==
    { [json |-> TRUE, value |-> Obj([id |-> Str("dom_1")])],
      [json |-> TRUE, value |-> Obj([error |-> Str("not found")])],
      [json |-> TRUE, value |-> Obj([error |-> Str("")])],
      [json |-> TRUE, value |-> Null],
      [json |-> FALSE, value |-> Undefined] }

Statuses == {200, 404}

\* response.ok
Ok(status) == status >= 200 /\ status <= 299

Responses == [t : {"response"}, status : Statuses, body : Bodies]

\* what fetch rejects with when no response is obtained
TransportErrors ==
    { [t |-> "error", error |-> Error("TypeError", "fetch failed")],
      [t |-> "error", error |-> Error("TypeError", "Failed to parse URL")] }

\* completion records of a block of code
Return(value) == [t |-> "return", value |-> value]
Throw(error) == [t |-> "throw", error |-> error]

\* await response.json()
ResponseJson(response) ==
    IF response.body.json
      THEN Return(response.body.value)
      ELSE Throw(Error("SyntaxError", "Unexpected token < in JSON at position 0"))

\* json.error
GetError(json) ==
    CASE json.t = "null" ->
           Throw(Error("TypeError", "Cannot read properties of null (reading 'error')"))
      [] json.t = "object" ->
           Return(IF "error" \in DOMAIN json.v THEN json.v.error ELSE Undefined)
      [] OTHER -> Return(Undefined)

\* the try block after fetch resolved: decode, then throw on !response.ok
AfterFetch(response) ==
    LET decoded == ResponseJson(response) IN
    IF decoded.t = "throw" THEN decoded
    ELSE IF ~Ok(response.status)
      THEN LET e == GetError(decoded.value) IN
           IF e.t = "throw" THEN e
           ELSE Throw(DomainFlowError(Or(e.value, Str("API request failed")),
                                      Num(response.status), decoded.value))
      ELSE Return(decoded.value)

\* a catch block that wraps with the generic message instead of error.message
CatchGenericMessage(error) ==
    IF error.name = "DomainFlowError"
      THEN error
      ELSE DomainFlowError(Str("API request failed"), Null, Null)

\* the catch block: a DomainFlowError is rethrown, anything else is wrapped
Catch(error) ==
    IF error.name = "DomainFlowError"
      THEN error
      ELSE DomainFlowError(error.message, Null, Null)

\* how the promise of _request settles, given a completion of the try block
Settle(completion) ==
    IF completion.t = "return"
      THEN [t |-> "resolved", value |-> completion.value]
      ELSE [t |-> "rejected", error |-> Catch(completion.error)]

\* an operation is invoked: _request runs up to its first await, calling fetch once
Invoke(c, op) ==
    /\ client # Undefined
    /\ pc[c] = "idle"
    /\ req' = [req EXCEPT ![c] = BuildRequest(client, op.method, op.path, op.data)]
    /\ sent' = [sent EXCEPT ![c] = @ + 1]
    /\ pc' = [pc EXCEPT ![c] = "fetch"]
    /\ UNCHANGED <<client, ctorCall, res, outcome, listCall, sigCall>>

\* fetch resolves with a response: _request goes on to await response.json()
FetchResolve(c, response) ==
    /\ pc[c] = "fetch"
    /\ res' = [res EXCEPT ![c] = response]
    /\ pc' = [pc EXCEPT ![c] = "json"]
    /\ UNCHANGED <<client, ctorCall, req, sent, outcome, listCall, sigCall>>

\* a gateway that calls fetch again when it rejected (up to three attempts)
FetchRejectRetry(c, failure) ==
    /\ pc[c] = "fetch"
    /\ IF sent[c] < 3
         THEN /\ sent' = [sent EXCEPT ![c] = @ + 1]
              /\ UNCHANGED <<pc, res, outcome>>
         ELSE /\ res' = [res EXCEPT ![c] = failure]
              /\ outcome' = [outcome EXCEPT ![c] =
                    [t |-> "rejected", error |-> DomainFlowError(failure.error.message, Null, Null)]]
              /\ pc' = [pc EXCEPT ![c] = "done"]
              /\ UNCHANGED sent
    /\ UNCHANGED <<client, ctorCall, req, listCall, sigCall>>

\* fetch rejects: control passes to the catch block
FetchReject(c, failure) ==
    /\ pc[c] = "fetch"
    /\ res' = [res EXCEPT ![c] = failure]
    /\ outcome' = [outcome EXCEPT ![c] = Settle(Throw(failure.error))]
    /\ pc' = [pc EXCEPT ![c] = "done"]
    /\ UNCHANGED <<client, ctorCall, req, sent, listCall, sigCall>>

\* a gateway that keeps the response in a field shared by all calls: a call settles
\* from whichever response is being decoded
JsonSettleShared(c) ==
    /\ pc[c] = "json"
    /\ \E d \in Calls :
          /\ pc[d] = "json"
          /\ outcome' = [outcome EXCEPT ![c] = Settle(AfterFetch(res[d]))]
    /\ pc' = [pc EXCEPT ![c] = "done"]
    /\ UNCHANGED <<client, ctorCall, req, sent, res, listCall, sigCall>>

\* response.json() settles: the rest of the try block runs, and the catch block if it throws
JsonSettle(c) ==
    /\ pc[c] = "json"
    /\ outcome' = [outcome EXCEPT ![c] = Settle(AfterFetch(res[c]))]
    /\ pc' = [pc EXCEPT ![c] = "done"]
    /\ UNCHANGED <<client, ctorCall, req, sent, res, listCall, sigCall>>

---------------------------------------------------------------------------
(* domains.list *)

\* strings whose characters matter are kept with their characters
RECURSIVE Join(_)
Join(chars) == IF chars = <<>> THEN "" ELSE Head(chars) \o Join(Tail(chars))

StrOf(chars) == [t |-> "string", v |-> Join(chars), chars |-> chars]

\* characters of filter values: one that serialises as itself and two that do not
FilterChars == {"a", " ", "&"}

FilterValues ==
    {Undefined} \cup
    {StrOf(s) : s \in UNION {[1..n -> FilterChars] : n \in 0..MaxValueLen}}

\* the params arguments tried ({} is both fields undefined)
ListParams == [tenantId : FilterValues, status : FilterValues]

\* the application/x-www-form-urlencoded byte serialiser of URLSearchParams
FormEncodeChar(ch) ==
    CASE ch = " " -> "+"
      [] ch = "&" -> "%26"
      [] OTHER -> ch

RECURSIVE FormEncode(_)
FormEncode(chars) ==
    IF chars = <<>> THEN ""
    ELSE FormEncodeChar(Head(chars)) \o FormEncode(Tail(chars))

\* new URLSearchParams() followed by the two conditional appends
QueryParams(params) ==
    (IF Truthy(params.tenantId) THEN << <<"tenant_id", params.tenantId>> >> ELSE <<>>)
    \o (IF Truthy(params.status) THEN << <<"status", params.status>> >> ELSE <<>>)

\* URLSearchParams.prototype.toString
RECURSIVE QueryToString(_)
QueryToString(pairs) ==
    IF pairs = <<>> THEN ""
    ELSE LET p == Head(pairs)
             one == p[1] \o "=" \o FormEncode(p[2].chars)
         IN IF Tail(pairs) = <<>> THEN one
            ELSE one \o "&" \o QueryToString(Tail(pairs))

\* a path that always carries the '?'
ListPathAlwaysQuery(params) ==
    "/api/domain" \o "?" \o QueryToString(QueryParams(params))

\* the path domains.list passes to _request
ListPath(params) ==
    LET qs == QueryToString(QueryParams(params))
        query == IF qs # "" THEN "?" \o qs ELSE ""
    IN "/api/domain" \o query

\* client.domains.list(params), run up to the await in _request; it is call 1
DomainsList(params) ==
    /\ client # Undefined
    /\ pc[1] = "idle"
    /\ listCall' = [pc |-> "called", params |-> params]
    /\ req' = [req EXCEPT ![1] = BuildRequest(client, "GET", ListPath(params), Null)]
    /\ sent' = [sent EXCEPT ![1] = @ + 1]
    /\ pc' = [pc EXCEPT ![1] = "fetch"]
    /\ UNCHANGED <<client, ctorCall, res, outcome, sigCall>>

---------------------------------------------------------------------------
(* webhooks.verifySignature *)

PayloadChars == {"a", "b"}
Payloads == UNION {[1..n -> PayloadChars] : n \in 0..MaxPayloadLen}
Secrets == {<<"k">>, <<"z">>, <<"k", "z">>}

\* character codes of the characters used in payloads and secrets
CharCode(ch) ==
    CASE ch = "a" -> 97
      [] ch = "b" -> 98
      [] ch = "k" -> 107
      [] ch = "z" -> 122

RECURSIVE Codes(_)
Codes(chars) == IF chars = <<>> THEN <<>> ELSE <<CharCode(Head(chars))>> \o Codes(Tail(chars))

\* a one-byte digest function standing for SHA-256
RECURSIVE DigestFrom(_, _)
DigestFrom(h, bytes) ==
    IF bytes = <<>> THEN h
    ELSE DigestFrom((h * 31 + Head(bytes)) % 256, Tail(bytes))

Digest(bytes) == DigestFrom(7, bytes)

\* the key padded with a constant byte (ipad / opad of the HMAC construction)
Padded(key, pad) == [i \in 1..Len(key) |-> (key[i] + pad) % 256]

\* crypto.createHmac('sha256', secret).update(payload): H(opad-key || H(ipad-key || message))
Hmac(secret, payload) ==
    LET key == Codes(secret)
        inner == Digest(Padded(key, 54) \o Codes(payload))
    IN Digest(Padded(key, 92) \o <<inner>>)

HexDigits == <<"0", "1", "2", "3", "4", "5", "6", "7", "8", "9", "a", "b", "c", "d", "e", "f">>

\* hmac.digest('hex'): two lowercase hexadecimal digits per byte
DigestHex(byte) == <<HexDigits[(byte \div 16) + 1], HexDigits[(byte % 16) + 1]>>

\* the signatures tried: no header at all, and every string of at most two characters
\* over the hexadecimal digits of both cases, and those extended by one character
SigChars == {HexDigits[i] : i \in 1..16} \cup {"A", "B", "C", "D", "E", "F"}
ShortSigs == UNION {[1..n -> SigChars] : n \in 0..2}
Signatures ==
    {Undefined} \cup {StrOf(s) : s \in ShortSigs}
    \cup {StrOf(DigestHex(b) \o <<x>>) : b \in 0..255, x \in {"0", "a"}}

\* a comparison that ignores the case of the hexadecimal digits
LowerCase(ch) ==
    CASE ch = "A" -> "a" [] ch = "B" -> "b" [] ch = "C" -> "c"
      [] ch = "D" -> "d" [] ch = "E" -> "e" [] ch = "F" -> "f"
      [] OTHER -> ch

EqualsIgnoringCase(computed, signature) ==
    /\ signature.t = "string"
    /\ Len(signature.chars) = Len(computed)
    /\ \A i \in 1..Len(computed) : LowerCase(signature.chars[i]) = computed[i]

\* computed === signature
StrictEquals(computed, signature) ==
    signature.t = "string" /\ signature.chars = computed

\* client.webhooks.verifySignature(payload, signature, secret)
VerifySignatureResult(payload, signature, secret) ==
    LET computed == DigestHex(Hmac(secret, payload))
    IN StrictEquals(computed, signature)

VerifySignature(payload, signature, secret) ==
    /\ client # Undefined
    /\ sigCall.pc = "none"
    /\ sigCall' = [pc |-> "returned", payload |-> payload, signature |-> signature,
                   secret |-> secret,
                   result |-> VerifySignatureResult(payload, signature, secret)]
    /\ UNCHANGED gatewayVars
    /\ UNCHANGED listCall

---------------------------------------------------------------------------
(* Specification of the gateway *)

NoListCall == [pc |-> "none"]
NoSigCall == [pc |-> "none"]

Init ==
    /\ client = Undefined
    /\ ctorCall = [pc |-> "none"]
    /\ pc = [c \in Calls |-> "idle"]
    /\ req = [c \in Calls |-> Undefined]
    /\ sent = [c \in Calls |-> 0]
    /\ res = [c \in Calls |-> Undefined]
    /\ outcome = [c \in Calls |-> Undefined]
    /\ listCall = NoListCall
    /\ sigCall = NoSigCall

Next ==
    \/ \E k \in ApiKeys, o \in OptionsArgs : Construct(k, o)
    \/ \E c \in Calls, op \in Operations : Invoke(c, op)
    \/ \E c \in Calls, r \in Responses : FetchResolve(c, r)
    \/ \E c \in Calls, f \in TransportErrors : FetchReject(c, f)
    \/ \E c \in Calls : JsonSettle(c)

Spec == Init /\ [][Next]_vars

---------------------------------------------------------------------------
(* Specifications of domains.list and of verifySignature, on a constructed client *)

SomeClient == NewClient(Str("key-A"), [baseUrl |-> Undefined, timeout |-> Undefined])

InitConstructed ==
    /\ client = SomeClient
    /\ ctorCall = [pc |-> "returned", apiKey |-> Str("key-A"),
                   options |-> [baseUrl |-> Undefined, timeout |-> Undefined],
                   error |-> Undefined]
    /\ pc = [c \in Calls |-> "idle"]
    /\ req = [c \in Calls |-> Undefined]
    /\ sent = [c \in Calls |-> 0]
    /\ res = [c \in Calls |-> Undefined]
    /\ outcome = [c \in Calls |-> Undefined]
    /\ listCall = NoListCall
    /\ sigCall = NoSigCall

NextList ==
    \/ \E p \in ListParams : DomainsList(p)
    \/ \E r \in Responses : FetchResolve(1, r)
    \/ \E f \in TransportErrors : FetchReject(1, f)
    \/ JsonSettle(1)

SpecList == InitConstructed /\ [][NextList]_vars

NextVerify ==
    /\ sigCall.pc = "none"
    /\ \E p \in Payloads, g \in Signatures, s \in Secrets : VerifySignature(p, g, s)

SpecVerify == InitConstructed /\ [][NextVerify]_vars

---------------------------------------------------------------------------
(* Properties of the constructor and of the gateway, under Spec *)

Settled(c) == pc[c] = "done"
GotResponse(c) == pc[c] \in {"json", "done"} /\ res[c].t = "response"
NoResponse(c) == pc[c] = "done" /\ res[c].t = "error"

\* C1: a constructor call with a missing (undefined or empty) API key throws, leaves
\* no client object and issues no request; a call with a non-empty key returns a
\* client that has the domains, tenants, webhooks and certificates namespaces.
C1_ConstructorGuard ==
    /\ ctorCall.pc \in {"thrown", "returned"} =>
          (ctorCall.pc = "thrown" <=> ctorCall.apiKey \in {Undefined, Str("")})
    /\ ctorCall.pc = "thrown" =>
          /\ client = Undefined
          /\ \A c \in Calls : sent[c] = 0 /\ pc[c] = "idle"
    /\ ctorCall.pc = "returned" =>
          /\ client # Undefined
          /\ client.apiKey = ctorCall.apiKey
          /\ client.domains = "DomainsResource"
          /\ client.tenants = "TenantsResource"
          /\ client.webhooks = "WebhooksResource"
          /\ client.certificates = "CertificatesResource"

C1_Witness == ctorCall.pc = "thrown" /\ ctorCall.apiKey = Str("")

\* C2: a call answered with a non-2xx status and a JSON body is rejected with a
\* DomainFlowError whose statusCode is the response status, whose response is the
\* decoded body and whose message is the body's error field if the body has one,
\* else 'API request failed'.
C2_NonSuccessError ==
    \A c \in Calls :
        (Settled(c) /\ GotResponse(c) /\ ~Ok(res[c].status) /\ res[c].body.json) =>
            LET json == res[c].body.value
                hasError == json.t = "object" /\ "error" \in DOMAIN json.v
            IN outcome[c] =
                 [t |-> "rejected",
                  error |-> [name |-> "DomainFlowError",
                             message |-> IF hasError THEN json.v.error
                                         ELSE Str("API request failed"),
                             statusCode |-> Num(res[c].status),
                             response |-> json]]

\* C3: a call whose fetch obtained no response is rejected with a DomainFlowError
\* whose statusCode and response are null and whose message is the message of the
\* failure fetch rejected with.
C3_TransportError ==
    \A c \in Calls :
        NoResponse(c) =>
            outcome[c] =
              [t |-> "rejected",
               error |-> [name |-> "DomainFlowError",
                          message |-> res[c].error.message,
                          statusCode |-> Null,
                          response |-> Null]]

C3_Witness ==
    \E c \in Calls : NoResponse(c) /\ res[c].error.message = Str("Failed to parse URL")

\* C4: a call answered with a 2xx status resolves, and with the decoded body, unchanged.
C4_SuccessVerbatim ==
    \A c \in Calls :
        (Settled(c) /\ GotResponse(c) /\ Ok(res[c].status)) =>
            /\ outcome[c].t = "resolved"
            /\ res[c].body.json => outcome[c].value = res[c].body.value

\* C6: fetch is called exactly once for every invoked operation, whatever the
\* outcome, and a call that got no response or a non-2xx response is rejected.
C6_ExactlyOnce ==
    \A c \in Calls :
        /\ sent[c] = (IF pc[c] = "idle" THEN 0 ELSE 1)
        /\ (Settled(c) /\ (res[c].t = "error" \/ ~Ok(res[c].status))) =>
              outcome[c].t = "rejected"

C6_Witness ==
    \E c \in Calls : NoResponse(c) /\ sent[c] = 1 /\ outcome[c].t = "rejected"

\* the timeout after which the transport gives up on a request, if its options set one
RequestTimeout(options) ==
    IF "signal" \in DOMAIN options THEN options.signal.timeout ELSE Undefined

\* C7: every request handed to fetch carries the client's configured timeout.
C7_RequestCarriesTimeout ==
    \A c \in Calls :
        pc[c] # "idle" => RequestTimeout(req[c].options) = client.timeout

\* C8: a call answered with a non-2xx status and a body that is not JSON is rejected
\* with a DomainFlowError that carries the response status and a null response, and
\* whose message is not that of the decode error.
C8_UndecodableErrorBody ==
    \A c \in Calls :
        (Settled(c) /\ GotResponse(c) /\ ~Ok(res[c].status) /\ ~res[c].body.json) =>
            /\ outcome[c].t = "rejected"
            /\ outcome[c].error.name = "DomainFlowError"
            /\ outcome[c].error.statusCode = Num(res[c].status)
            /\ outcome[c].error.response = Null
            /\ outcome[c].error.message # Str("Unexpected token < in JSON at position 0")

\* the configuration the constructor arguments determine
ConfiguredBaseUrl ==
    IF ctorCall.options.baseUrl = Undefined THEN Str(DefaultBaseUrl)
    ELSE ctorCall.options.baseUrl
ConfiguredTimeout ==
    IF ctorCall.options.timeout = Undefined THEN Num(DefaultTimeout)
    ELSE ctorCall.options.timeout

\* the state of one call
CallState(c) == <<pc[c], req[c], sent[c], res[c], outcome[c]>>

\* C10: with several calls in flight, under every interleaving, the client keeps the
\* configuration it was constructed with, every request carries that API key in
\* x-api-key, the outcome of a call is the one its own fetch result gives, and a step
\* of one call leaves every other call as it was.
C10_Independent ==
    /\ [](client # Undefined =>
            /\ client.apiKey = ctorCall.apiKey
            /\ client.baseUrl = ConfiguredBaseUrl
            /\ client.timeout = ConfiguredTimeout
            /\ \A c \in Calls :
                  /\ pc[c] # "idle" => req[c].options.headers.xApiKey = ctorCall.apiKey
                  /\ Settled(c) =>
                        outcome[c] = Settle(IF res[c].t = "error" THEN Throw(res[c].error)
                                            ELSE AfterFetch(res[c])))
    /\ [][/\ client # Undefined => client' = client
          /\ \A c, d \in Calls :
                c # d => (CallState(c)' = CallState(c) \/ CallState(d)' = CallState(d))
          /\ \A c \in Calls : Settled(c) => CallState(c)' = CallState(c)]_vars

C10_Witness ==
    /\ \A c \in Calls : Settled(c)
    /\ \E c, d \in Calls : res[c].t = "response" /\ res[d].t = "response" /\ outcome[c] # outcome[d]

---------------------------------------------------------------------------
(* Properties of domains.list, under SpecList *)

\* the characters of a value as they stand in the query string
Serialised(ch) == IF ch = " " THEN "+" ELSE IF ch = "&" THEN "%26" ELSE ch

RECURSIVE SerialisedValue(_)
SerialisedValue(chars) ==
    IF chars = <<>> THEN "" ELSE Serialised(Head(chars)) \o SerialisedValue(Tail(chars))

\* "/api/domain" followed by the query made of the given key=value pairs
PathWith(tenant, status) ==
    "/api/domain" \o
    (CASE tenant = "" /\ status = "" -> ""
       [] tenant # "" /\ status = "" -> "?" \o tenant
       [] tenant = "" /\ status # "" -> "?" \o status
       [] OTHER -> "?" \o tenant \o "&" \o status)

ListUrl == req[1].url
ListBase == client.baseUrl.v

\* C9, as stated: the path is /api/domain, then tenant_id=<value> and status=<value>
\* with the values as given, each only when provided (and whenever it is a non-empty
\* string), joined with '&' in that order, after a '?' only if there is a pair.
C9_ListPathRawValues ==
    listCall.pc = "called" =>
        LET p == listCall.params IN
        /\ req[1].options.method = "GET"
        /\ \E withTenant \in {b \in BOOLEAN : (b => p.tenantId # Undefined)
                                              /\ (Truthy(p.tenantId) => b)},
              withStatus \in {b \in BOOLEAN : (b => p.status # Undefined)
                                              /\ (Truthy(p.status) => b)} :
              ListUrl = ListBase \o
                  PathWith(IF withTenant THEN "tenant_id=" \o p.tenantId.v ELSE "",
                           IF withStatus THEN "status=" \o p.status.v ELSE "")

\* C9, amended: as above, with each value in its application/x-www-form-urlencoded
\* form (' ' as '+', '&' as '%26', a letter as itself), and a pair present exactly when
\* its value is a non-empty string.
C9_ListPathEncodedValues ==
    listCall.pc = "called" =>
        LET p == listCall.params IN
        /\ req[1].options.method = "GET"
        /\ "body" \notin DOMAIN req[1].options
        /\ ListUrl = ListBase \o
              PathWith(IF p.tenantId # Undefined /\ p.tenantId.chars # <<>>
                         THEN "tenant_id=" \o SerialisedValue(p.tenantId.chars) ELSE "",
                       IF p.status # Undefined /\ p.status.chars # <<>>
                         THEN "status=" \o SerialisedValue(p.status.chars) ELSE "")
        /\ (p.tenantId = Undefined /\ p.status = Undefined) =>
              ListUrl = ListBase \o "/api/domain"
        /\ (p.tenantId = Undefined /\ p.status # Undefined /\ p.status.chars = <<"a">>) =>
              ListUrl = ListBase \o "/api/domain?status=a"

C9_Witness ==
    /\ listCall.pc = "called"
    /\ listCall.params.tenantId # Undefined
    /\ listCall.params.tenantId.chars = <<"a">>
    /\ listCall.params.status # Undefined
    /\ listCall.params.status.chars = <<"a", " ">>
    /\ ListUrl = ListBase \o "/api/domain?tenant_id=a&status=a+"

---------------------------------------------------------------------------
(* Properties of verifySignature, under SpecVerify *)

\* the strings a and b differ in length or in at least one character
Differ(a, b) == Len(a) # Len(b) \/ \E i \in 1..Len(a) : a[i] # b[i]

\* the lowercase-hex HMAC of the payload of the call under the secret of the call
ValidSignature == DigestHex(Hmac(sigCall.secret, sigCall.payload))

\* C5: verifySignature returns true for the lowercase-hex HMAC of the payload under
\* the secret, and false for any signature that differs from it in at least one
\* character, among them the valid signatures of other payloads and of other secrets
\* whose digest differs.
C5_VerifyIffExact ==
    sigCall.pc = "returned" =>
        /\ (sigCall.signature.t = "string" /\ ~Differ(sigCall.signature.chars, ValidSignature))
              => sigCall.result = TRUE
        /\ (sigCall.signature.t = "string" /\ Differ(sigCall.signature.chars, ValidSignature))
              => sigCall.result = FALSE
        /\ sigCall.signature.t # "string" => sigCall.result = FALSE
        /\ \A p \in Payloads, s \in Secrets :
              (/\ sigCall.signature.t = "string"
               /\ sigCall.signature.chars = DigestHex(Hmac(s, p))
               /\ Hmac(s, p) # Hmac(sigCall.secret, sigCall.payload))
              => sigCall.result = FALSE

C5_Witness ==
    /\ sigCall.pc = "returned"
    /\ Len(sigCall.payload) >= 1
    /\ sigCall.signature.t = "string"
    /\ sigCall.signature.chars = ValidSignature
    /\ sigCall.result = TRUE
    /\ \E i \in 1..2 : ValidSignature[i] \in {"a", "b", "c", "d", "e", "f"}

====
